---- MODULE Spec2Model ----
(***************************************************************************)
(* GlitchForge: the live shader editor (component GlitchForge) and its     *)
(* export compiler.  The repository holds two builds of the component:     *)
(*   src/components/GlitchForge.tsx   (exports a standalone HTML page)     *)
(*   src/unnamed/part_003             (exports a React .tsx component)     *)
(* Variable `build` says which of the two a behaviour runs; every action   *)
(* follows the code of that build.                                         *)
(*                                                                         *)
(* Numbers that the code holds as floats with one decimal (zoom 1.5, ...)  *)
(* are held in tenths: 15 is 1.5, 30 is 3, 800 is 80.                      *)
(***************************************************************************)
EXTENDS Integers, Sequences, FiniteSets, TLC

VARIABLES
    build,              \* which source file runs
    mounted,            \* "unmounted" | "mounted" | "disposed"
    now,                \* Date.now()
    selectedAnimation,  \* useState: id of the selected catalog entry
    params,             \* useState<ShaderParams>
    layers,             \* useState<Layer[]>
    selectedLayerId,    \* useState<string>
    dragging,           \* useState: NoDrag or [id, offsetX, offsetY]
    glRef,              \* useRef: TRUE when a WebGL2 context is held
    contextLost,        \* the context's "webgl context lost" flag
    programRef,         \* useRef<WebGLProgram|null>: 0 is null
    livePrograms,       \* program objects created and not deleted (ids)
    progStatus,         \* compile/link status of the program programRef names
    shaders,            \* number of shader objects created and not deleted
    buffers,            \* number of geometry buffers created and not deleted
    effectRuns,         \* runs of the program-rebuild useEffect so far
    rebuildCleanup,     \* TRUE when the last run of that effect returned a cleanup
    animationFrameRef,  \* useRef<number>: last requestAnimationFrame id, 0 at start
    pending,            \* requested, not yet fired or cancelled frame callbacks
    frame,              \* the uniform calls and the draw of the render() that ran in
                        \* the latest step, NoFrame when that step ran none
    artifact,           \* the file the latest step handed to the browser for
                        \* download, NoArtifact when that step exported nothing
    customFontUrl,      \* useState: the font-URL input (tempFontUrl in part_003)
    loadedFontName,     \* useState (GlitchForge.tsx): name of the last font set
    fontLoads,          \* FontFace.load() promises not yet settled, each with the
                        \* url, the font name and the selectedLayerId its call saw
    fontEvent,          \* how a font request ended in the latest step:
                        \* "loaded", "failed", or "none" when none ended
    exported            \* the exported program run on its own, outside the editor:
                        \* its phase, its context, its GPU objects and its frames

vars == <<build, exported, mounted, now, selectedAnimation, params, layers,
          selectedLayerId, dragging, glRef, contextLost, programRef, livePrograms, progStatus,
          shaders, buffers, effectRuns, rebuildCleanup, animationFrameRef, pending,
          frame, artifact, customFontUrl, loadedFontName, fontLoads, fontEvent>>

layerVars == <<layers, selectedLayerId, dragging>>
paramVars == <<selectedAnimation, params>>
engineVars == <<glRef, programRef, livePrograms, progStatus, shaders, buffers,
                effectRuns, rebuildCleanup, animationFrameRef, pending, frame>>
fontVars == <<customFontUrl, loadedFontName, fontLoads>>

(***************************************************************************)
(* Bounds of the model.                                                    *)
(***************************************************************************)
MaxLayers == 3          \* addLayer is not taken beyond this many layers
MaxEffectRuns == 3      \* runs of the rebuild effect (one per commit of its deps)
MaxArtifactFrames == 2  \* frames of the exported program that are counted

FileA == "GlitchForge.tsx"
FileB == "part_003"

NoDrag == [id |-> "none", offsetX |-> 0, offsetY |-> 0]
NoArtifact == [kind |-> "none"]
NoFrame == [program |-> 0]

\* Date.now() readings of the model (milliseconds)
NowValues == {1700, 1701}
NoStatus == [vsOk |-> FALSE, fsOk |-> FALSE, linkOk |-> FALSE]

\* the exported program before anyone opens it
NotStarted ==
    [kind |-> "none", phase |-> "idle", gl |-> FALSE, contextLost |-> FALSE,
     programs |-> 0, shaders |-> 0, buffers |-> 0, pending |-> 0, frames |-> 0]
EmptyMap == [n \in {} |-> 0]

(***************************************************************************)
(* A URL is kept as the parts the code looks at: the host, the extension   *)
(* of the path (before any "?") and the family= query parameter.  NoUrl is *)
(* the empty string, and the absent fontUrl of a layer.                    *)
(***************************************************************************)
NoUrl == [host |-> "", ext |-> "", family |-> ""]
GoogleUrl == [host |-> "fonts.googleapis.com", ext |-> "", family |-> "Roboto"]
FileUrl == [host |-> "cdn.example", ext |-> "woff2", family |-> ""]

\* the step settles no font request and leaves the font panel alone
fontIdle ==
    /\ fontEvent' = "none"
    /\ UNCHANGED <<customFontUrl, loadedFontName, fontLoads>>

(***************************************************************************)
(* The effect catalog (const animations): its first two entries, the same  *)
(* in both builds; glitch declares no custom parameter, plasma declares    *)
(* frequency.  default is in tenths.                                       *)
(***************************************************************************)
animations ==
    <<[id |-> "glitch", customParams |-> <<>>],
      [id |-> "plasma",
       customParams |-> <<[name |-> "frequency", default |-> 30, uniform |-> "u_frequency"]>>]>>

AnimationIds == {animations[i].id : i \in 1..Len(animations)}

\* animations.find((a) => a.id === id)
FindAnimation(id) == animations[CHOOSE i \in 1..Len(animations) : animations[i].id = id]

CustomParamsOf(id) == FindAnimation(id).customParams

Range(s) == {s[i] : i \in 1..Len(s)}

(***************************************************************************)
(* Initial useState values.                                                *)
(***************************************************************************)
InitialColors ==
    << <<"#","c","c","f","f","0","0">>, <<"#","f","f","0","0","f","f">>,
       <<"#","0","0","f","f","f","f">>, <<"#","f","f","6","6","0","0">>,
       <<"#","0","0","6","6","f","f">> >>

InitialParams ==
    [colors |-> InitialColors, complexity |-> 800, zoom |-> 15, speed |-> 10,
     distortion |-> 10, customParams |-> EmptyMap]

InitialLayer ==
    [id |-> "1", type |-> "text", text |-> "GLITCH // FORGE", x |-> 50, y |-> 50,
     size |-> 48, font |-> "monospace", fontUrl |-> NoUrl]

\* every useState and useRef but params
InitOther ==
    /\ build \in {FileA, FileB}
    /\ mounted = "unmounted"
    /\ now = 1700
    /\ selectedAnimation = animations[1].id
    /\ layers = <<InitialLayer>>
    /\ selectedLayerId = "1"
    /\ dragging = NoDrag
    /\ glRef = FALSE
    /\ contextLost = FALSE
    /\ programRef = 0
    /\ livePrograms = {}
    /\ progStatus = NoStatus
    /\ shaders = 0
    /\ buffers = 0
    /\ effectRuns = 0
    /\ rebuildCleanup = FALSE
    /\ animationFrameRef = 0
    /\ pending = {}
    /\ frame = NoFrame
    /\ artifact = NoArtifact
    /\ customFontUrl = NoUrl
    /\ loadedFontName = ""
    /\ fontLoads = {}
    /\ fontEvent = "none"
    /\ exported = NotStarted

Init ==
    /\ params = InitialParams
    /\ InitOther

\* colors an <input type="color"> can hand over, and one in capitals
ColorSamples ==
    { <<"#","c","c","f","f","0","0">>, <<"#","0","0","0","0","0","0">>,
      <<"#","f","f","f","f","f","f">>, <<"#","1","a","2","b","3","c">>,
      <<"#","8","0","e","9","d","7">>, <<"#","C","C","F","F","0","0">> }

\* the component with a palette whose first entry is any of the samples
InitPalette ==
    /\ \E c \in ColorSamples : params = [InitialParams EXCEPT !.colors[1] = c]
    /\ InitOther

(***************************************************************************)
(* Color conversion (hexToRgb in GlitchForge.tsx, inlined in part_003).    *)
(* A color string is a sequence of characters; a channel is the fraction   *)
(* num/den, or NaN (nan = TRUE) when parseInt finds no hex digit.          *)
(***************************************************************************)
HexDigits == <<"0","1","2","3","4","5","6","7","8","9","a","b","c","d","e","f">>
HexDigitsUpper == <<"0","1","2","3","4","5","6","7","8","9","A","B","C","D","E","F">>

IsHexDigit(c) == \E i \in 1..16 : HexDigits[i] = c \/ HexDigitsUpper[i] = c

HexValue(c) == (CHOOSE i \in 1..16 : HexDigits[i] = c \/ HexDigitsUpper[i] = c) - 1

\* String.prototype.slice(from, to) with 0 <= from <= to
Slice(str, from, to) ==
    SubSeq(str, from + 1, IF to < Len(str) THEN to ELSE Len(str))

\* a parseInt that reads the two digits in base 10
ParseInt10(str) ==
    IF Len(str) = 0 \/ ~IsHexDigit(str[1]) THEN [nan |-> TRUE, value |-> 0]
    ELSE IF Len(str) = 1 \/ ~IsHexDigit(str[2])
         THEN [nan |-> FALSE, value |-> HexValue(str[1])]
    ELSE [nan |-> FALSE, value |-> 10 * HexValue(str[1]) + HexValue(str[2])]

\* parseInt(str, 16) of a string of at most two characters: the longest prefix
\* of hex digits, NaN when it is empty
ParseInt16(str) ==
    IF Len(str) = 0 \/ ~IsHexDigit(str[1]) THEN [nan |-> TRUE, value |-> 0]
    ELSE IF Len(str) = 1 \/ ~IsHexDigit(str[2])
         THEN [nan |-> FALSE, value |-> HexValue(str[1])]
    ELSE [nan |-> FALSE, value |-> 16 * HexValue(str[1]) + HexValue(str[2])]

\* n / 255
Over255(n) == [nan |-> n.nan, num |-> n.value, den |-> 255]

hexToRgb(hex) ==
    <<Over255(ParseInt16(Slice(hex, 1, 3))),
      Over255(ParseInt16(Slice(hex, 3, 5))),
      Over255(ParseInt16(Slice(hex, 5, 7)))>>

(***************************************************************************)
(* render(): the per-frame callback built by one run of the rebuild effect.*)
(* It closes over that run's selectedAnimation and params (anim, p) and    *)
(* reads programRef.current when it runs (prog).                           *)
(***************************************************************************)
\* a lookup that forgets the override
CustomValueDefaultOnly(p, param) == param.default

\* params.customParams?.[param.name] ?? param.default
CustomValue(p, param) ==
    IF param.name \in DOMAIN p.customParams THEN p.customParams[param.name]
    ELSE param.default

\* the uniform1f calls of selectedAnimation.customParams?.forEach(...)
CustomUniforms(anim, p) ==
    LET cps == CustomParamsOf(anim)
    IN  [u \in {cps[i].uniform : i \in 1..Len(cps)} |->
            CustomValue(p, cps[CHOOSE i \in 1..Len(cps) : cps[i].uniform = u])]

\* every uniform call of one render(): colors[i] is bound to u_c<i>
Uniforms(prog, anim, p) ==
    [program |-> prog,
     colors |-> [i \in 1..Len(p.colors) |-> hexToRgb(p.colors[i])],
     u_zoom |-> p.zoom, u_complexity |-> p.complexity,
     u_speed |-> p.speed, u_distortion |-> p.distortion,
     custom |-> CustomUniforms(anim, p)]

FrameIds(pend) == {f.id : f \in pend}

\* requestAnimationFrame hands out an id no outstanding request has.  The only
\* holder of an id, animationFrameRef.current (ref), is overwritten with the
\* new id by the same statement, so the id of a request that fired or was
\* cancelled can be handed out again.
FreshFrameId(pend, ref) ==
    CHOOSE id \in 1..(Cardinality(pend) + 1) :
        /\ id \notin FrameIds(pend)
        /\ \A j \in 1..(id - 1) : j \in FrameIds(pend)

\* a cancelAnimationFrame that cancels nothing
CancelFrameNothing(pend, id) == pend

\* cancelAnimationFrame(id)
CancelFrame(pend, id) == {f \in pend : f.id # id}

\* render() run with programRef.current = prog, requests pend outstanding and
\* animationFrameRef.current = ref
Render(prog, anim, p, pend, ref) ==
    IF prog = 0
    THEN /\ pending' = pend
         /\ animationFrameRef' = ref
         /\ frame' = NoFrame
    ELSE /\ frame' = Uniforms(prog, anim, p)
         /\ animationFrameRef' = FreshFrameId(pend, ref)
         /\ pending' = pend \cup {[id |-> FreshFrameId(pend, ref), anim |-> anim, params |-> p]}

\* the host fires a requested frame callback
Tick ==
    \E f \in pending :
        /\ artifact' = NoArtifact
        /\ fontIdle
        /\ Render(programRef, f.anim, f.params, pending \ {f}, animationFrameRef)
        /\ UNCHANGED <<build, exported, mounted, now, selectedAnimation, params, layers,
                       selectedLayerId, dragging, glRef, contextLost, programRef,
                       livePrograms, progStatus, shaders, buffers, effectRuns,
                       rebuildCleanup>>

(***************************************************************************)
(* The program-rebuild effect: useEffect(..., [selectedAnimation, params]).*)
(* gl is glRef.current, anim and p the committed values the run closes     *)
(* over; vsOk, fsOk and linkOk are what the driver answers for the two     *)
(* compiles and the link.  livePrograms, shaders and buffers are the       *)
(* objects the component created and did not delete.                       *)
(*                                                                         *)
(* On a lost context createShader returns null and the next call,          *)
(* shaderSource(null, ...), throws a TypeError out of the effect; no error *)
(* boundary surrounds the component, so React unmounts it (RebuildThrows). *)
(***************************************************************************)
\* all three succeed, or exactly one step fails (the link of two compiled
\* shaders, or one of the compiles and with it the link)
CompileOutcomes ==
    {[vsOk |-> TRUE, fsOk |-> TRUE, linkOk |-> TRUE],
     [vsOk |-> TRUE, fsOk |-> TRUE, linkOk |-> FALSE],
     [vsOk |-> FALSE, fsOk |-> TRUE, linkOk |-> FALSE],
     [vsOk |-> TRUE, fsOk |-> FALSE, linkOk |-> FALSE]}

\* a cleanup that cancels no frame
RebuildCleanupKeepsFrames == pending

\* the cleanup the previous run of the effect returned
RebuildCleanupFrames ==
    IF ~rebuildCleanup THEN pending
    ELSE IF build = FileA /\ animationFrameRef = 0 THEN pending
    ELSE CancelFrame(pending, animationFrameRef)

\* if (!gl) return;
RebuildSkipped ==
    /\ mounted' = "mounted"
    /\ rebuildCleanup' = FALSE
    /\ pending' = RebuildCleanupFrames
    /\ frame' = NoFrame
    /\ UNCHANGED <<programRef, livePrograms, progStatus, shaders, buffers,
                   animationFrameRef>>

\* the effect on a lost context: deleteProgram, then the TypeError; the unmount
\* that follows runs the context effect's cleanup
RebuildThrows ==
    /\ mounted' = "disposed"
    /\ livePrograms' = livePrograms \ {programRef}
    /\ rebuildCleanup' = FALSE
    /\ pending' = IF build = FileA /\ animationFrameRef # 0
                  THEN CancelFrame(RebuildCleanupFrames, animationFrameRef)
                  ELSE RebuildCleanupFrames
    /\ frame' = NoFrame
    /\ UNCHANGED <<programRef, progStatus, shaders, buffers, animationFrameRef>>

\* the body of the effect on a live context
RebuildCompiles(anim, p) ==
    \E o \in CompileOutcomes :
        LET run == effectRuns + 1
            afterDelete == livePrograms \ {programRef}
        IN  /\ mounted' = "mounted"
            /\ shaders' = shaders + 2
            /\ IF build = FileA /\ ~o.fsOk
               THEN \* Fragment shader error: return before createProgram
                    /\ livePrograms' = afterDelete
                    /\ rebuildCleanup' = FALSE
                    /\ pending' = RebuildCleanupFrames
                    /\ frame' = NoFrame
                    /\ UNCHANGED <<programRef, progStatus, buffers, animationFrameRef>>
               ELSE /\ livePrograms' = afterDelete \cup {run}
                    /\ programRef' = run
                    /\ progStatus' = o
                    /\ buffers' = buffers + 1
                    /\ rebuildCleanup' = TRUE
                    /\ Render(run, anim, p, RebuildCleanupFrames, animationFrameRef)

\* the body of the effect once it holds a context
RebuildWithContext(anim, p) ==
    IF contextLost THEN RebuildThrows ELSE RebuildCompiles(anim, p)

\* a rebuild effect that lost its "if (!gl) return" guard
RebuildEffectUnguarded(gl, anim, p) ==
    /\ effectRuns <= MaxEffectRuns
    /\ effectRuns' = effectRuns + 1
    /\ RebuildWithContext(anim, p)

RebuildEffect(gl, anim, p) ==
    /\ effectRuns <= MaxEffectRuns
    /\ effectRuns' = effectRuns + 1
    /\ IF ~gl THEN RebuildSkipped ELSE RebuildWithContext(anim, p)

(***************************************************************************)
(* Mount: both effects run for the first time.  glAvailable is whether     *)
(* canvas.getContext('webgl2') returns a context.                          *)
(***************************************************************************)
Mount ==
    /\ mounted = "unmounted"
    /\ artifact' = NoArtifact
    /\ fontIdle
    /\ \E glAvailable \in BOOLEAN :
        /\ glRef' = glAvailable
        /\ RebuildEffect(glAvailable, selectedAnimation, params)
    /\ UNCHANGED <<build, exported, now, selectedAnimation, params, layers, selectedLayerId,
                   dragging, contextLost>>

(***************************************************************************)
(* Unmount: React runs the cleanups of both effects, the context effect's  *)
(* first.  Only a run that got a context returned a cleanup.               *)
(***************************************************************************)
ContextCleanupFrames ==
    IF build = FileA /\ glRef /\ animationFrameRef # 0
    THEN CancelFrame(pending, animationFrameRef)
    ELSE pending

Dispose ==
    /\ mounted = "mounted"
    /\ mounted' = "disposed"
    /\ frame' = NoFrame
    /\ artifact' = NoArtifact
    /\ fontIdle
    /\ pending' =
         LET afterContext == ContextCleanupFrames
         IN  IF ~rebuildCleanup THEN afterContext
             ELSE IF build = FileA /\ animationFrameRef = 0 THEN afterContext
             ELSE CancelFrame(afterContext, animationFrameRef)
    /\ UNCHANGED <<build, exported, now, selectedAnimation, params, layers, selectedLayerId,
                   dragging, glRef, contextLost, programRef, livePrograms, progStatus,
                   shaders, buffers, effectRuns, rebuildCleanup, animationFrameRef>>

\* The driver loses the context and the canvas gets 'webglcontextlost'.
\* Neither build registers a listener for it (nor for 'webglcontextrestored',
\* which the browser then never sends): only the context's flag changes.
ContextLost ==
    /\ glRef
    /\ ~contextLost
    /\ contextLost' = TRUE
    /\ frame' = NoFrame
    /\ artifact' = NoArtifact
    /\ fontIdle
    /\ UNCHANGED <<build, exported, mounted, now, selectedAnimation, params, layers,
                   selectedLayerId, dragging, glRef, programRef, livePrograms,
                   progStatus, shaders, buffers, effectRuns, rebuildCleanup,
                   animationFrameRef, pending>>

\* time passes
AdvanceClock ==
    /\ now + 1 \in NowValues
    /\ now' = now + 1
    /\ frame' = NoFrame
    /\ artifact' = NoArtifact
    /\ fontIdle
    /\ UNCHANGED <<build, exported, mounted, selectedAnimation, params, layers, selectedLayerId,
                   dragging, glRef, contextLost, programRef, livePrograms, progStatus,
                   shaders, buffers, effectRuns, rebuildCleanup, animationFrameRef,
                   pending>>

(***************************************************************************)
(* Parameter controls.  Each commits new state and, its dependencies       *)
(* having changed, re-runs the rebuild effect before the next event; the   *)
(* effect decides whether the component stays mounted.                     *)
(***************************************************************************)
otherVars == <<build, exported, now, layers, selectedLayerId, dragging, glRef,
               contextLost>>

\* <Select onValueChange={(id) => setSelectedAnimation(animations.find(...)!)}>
setSelectedAnimation ==
    /\ mounted = "mounted"
    /\ artifact' = NoArtifact
    /\ fontIdle
    /\ \E id \in AnimationIds :
        /\ id # selectedAnimation
        /\ selectedAnimation' = id
        /\ RebuildEffect(glRef, id, params)
    /\ UNCHANGED params
    /\ UNCHANGED otherVars

\* slider values on offer: [field |-> values in tenths]
ScalarInputs ==
    [complexity |-> {800, 1500}, zoom |-> {15, 1}, speed |-> {10, 0},
     distortion |-> {10, -50}]

\* the sliders each build renders
ScalarFields ==
    IF build = FileA THEN {"complexity", "zoom", "speed", "distortion"}
    ELSE {"complexity", "speed"}

\* <Slider onValueChange={([v]) => setParams({ ...params, field: v })}>
setScalar ==
    /\ mounted = "mounted"
    /\ artifact' = NoArtifact
    /\ fontIdle
    /\ \E field \in ScalarFields : \E v \in ScalarInputs[field] :
        /\ v # params[field]
        /\ params' = [params EXCEPT ![field] = v]
        /\ RebuildEffect(glRef, selectedAnimation, params')
    /\ UNCHANGED selectedAnimation
    /\ UNCHANGED otherVars

CustomInputs == {70}

\* { ...prev.customParams, [param.name]: value }
PutCustom(cp, name, value) ==
    [n \in DOMAIN cp \cup {name} |-> IF n = name THEN value ELSE cp[n]]

\* the custom-parameter sliders (GlitchForge.tsx only), one per declared parameter
setCustomValue ==
    /\ mounted = "mounted"
    /\ artifact' = NoArtifact
    /\ fontIdle
    /\ build = FileA
    /\ \E param \in Range(CustomParamsOf(selectedAnimation)) : \E v \in CustomInputs :
        /\ v # CustomValue(params, param)
        /\ params' = [params EXCEPT !.customParams = PutCustom(@, param.name, v)]
        /\ RebuildEffect(glRef, selectedAnimation, params')
    /\ UNCHANGED selectedAnimation
    /\ UNCHANGED otherVars

ColorInputs == { <<"#","0","0","0","0","0","0">>, <<"#","c","c","f","f","0","0">> }

\* params.colors.map((color, i) => <Input .../>): one input per palette entry;
\* the model edits the first and the last
PaletteSlots == {1, Len(params.colors)}

\* a palette input that adds its color at the end of the palette
setPaletteSlotAppending ==
    /\ mounted = "mounted"
    /\ artifact' = NoArtifact
    /\ fontIdle
    /\ \E c \in ColorInputs :
        /\ Len(params.colors) <= 5
        /\ params' = [params EXCEPT !.colors = Append(@, c)]
        /\ RebuildEffect(glRef, selectedAnimation, params')
    /\ UNCHANGED selectedAnimation
    /\ UNCHANGED otherVars

\* const newColors = [...params.colors]; newColors[i] = e.target.value
setPaletteSlot ==
    /\ mounted = "mounted"
    /\ artifact' = NoArtifact
    /\ fontIdle
    /\ \E i \in PaletteSlots : \E c \in ColorInputs :
        /\ c # params.colors[i]
        /\ params' = [params EXCEPT !.colors = [@ EXCEPT ![i] = c]]
        /\ RebuildEffect(glRef, selectedAnimation, params')
    /\ UNCHANGED selectedAnimation
    /\ UNCHANGED otherVars

(***************************************************************************)
(* Layer operations.                                                       *)
(***************************************************************************)
layerFrame == <<build, exported, mounted, now, selectedAnimation, params, glRef, contextLost,
                programRef, livePrograms, progStatus, shaders, buffers, effectRuns,
                rebuildCleanup, animationFrameRef, pending>>

LayerIds == {layers[i].id : i \in 1..Len(layers)}

\* const selectedLayer = layers.find((l) => l.id === selectedLayerId): the layer
\* editor (text input, font loader; in GlitchForge.tsx the add and delete
\* buttons too) is rendered only while it is found
LayerEditorShown == selectedLayerId \in LayerIds

\* the add and delete buttons can be clicked
LayerButtonsShown == build = FileA => LayerEditorShown

\* layers.filter(keep)
RECURSIVE FilterLayers(_, _)
FilterLayers(ls, dropId) ==
    IF ls = <<>> THEN <<>>
    ELSE IF Head(ls).id = dropId THEN FilterLayers(Tail(ls), dropId)
    ELSE <<Head(ls)>> \o FilterLayers(Tail(ls), dropId)

\* { ...layer, ...updates }
Merge(layer, updates) ==
    [f \in DOMAIN layer \cup DOMAIN updates |->
        IF f \in DOMAIN updates THEN updates[f] ELSE layer[f]]

\* a map that merges the updates into every layer
MapUpdateAll(ls, id, updates) == [i \in 1..Len(ls) |-> Merge(ls[i], updates)]

\* prev.map((layer) => (layer.id === id ? { ...layer, ...updates } : layer))
MapUpdate(ls, id, updates) ==
    [i \in 1..Len(ls) |-> IF ls[i].id = id THEN Merge(ls[i], updates) ELSE ls[i]]

\* the layer kind the model adds: the toolbar's "text" button of both builds
\* (GlitchForge.tsx has a second one for 'button', which differs in defaults)
LayerTypes == {"text"}

NewLayer(type) ==
    [id |-> ToString(now), type |-> type,
     text |-> IF build = FileA
              THEN (IF type = "text" THEN "NEW_LAYER" ELSE "CLICK_ME")
              ELSE (IF type = "text" THEN "NEW TEXT" ELSE "CLICK ME"),
     x |-> 50, y |-> 50,
     size |-> IF build = FileA
              THEN (IF type = "text" THEN 32 ELSE 16)
              ELSE (IF type = "text" THEN 48 ELSE 24),
     font |-> "monospace", fontUrl |-> NoUrl]

addLayer ==
    /\ mounted = "mounted"
    /\ frame' = NoFrame
    /\ artifact' = NoArtifact
    /\ fontIdle
    /\ Len(layers) < MaxLayers
    /\ LayerButtonsShown
    /\ \E type \in LayerTypes :
        /\ layers' = Append(layers, NewLayer(type))
        /\ selectedLayerId' = NewLayer(type).id
    /\ UNCHANGED dragging
    /\ UNCHANGED layerFrame

deleteLayer ==
    /\ mounted = "mounted"
    /\ frame' = NoFrame
    /\ artifact' = NoArtifact
    /\ fontIdle
    /\ LayerButtonsShown
    /\ IF Len(layers) <= 1
       THEN UNCHANGED <<layers, selectedLayerId>>
       ELSE LET remaining == FilterLayers(layers, selectedLayerId)
            IN  /\ layers' = remaining
                /\ selectedLayerId' =
                     IF build = FileA THEN layers[1].id
                     ELSE IF Len(remaining) > 0 THEN remaining[Len(remaining)].id
                     ELSE selectedLayerId
    /\ UNCHANGED dragging
    /\ UNCHANGED layerFrame

\* what the inspector's inputs hand to updateLayer
LayerUpdates == { [text |-> ""] }

updateLayer ==
    /\ mounted = "mounted"
    /\ frame' = NoFrame
    /\ artifact' = NoArtifact
    /\ fontIdle
    /\ LayerEditorShown
    /\ \E updates \in LayerUpdates :
        layers' = MapUpdate(layers, selectedLayerId, updates)
    /\ UNCHANGED <<selectedLayerId, dragging>>
    /\ UNCHANGED layerFrame

\* the viewport, and the pointer events on offer (client coordinates)
Window == [innerWidth |-> 200, innerHeight |-> 200]
PointerOffsets == { [offsetX |-> 0, offsetY |-> 0] }
PointerMoves == { [clientX |-> -40, clientY |-> 300] }

\* layers.find((x) => x.id === id)
FindLayer(ls, id) == ls[CHOOSE i \in 1..Len(ls) : ls[i].id = id]

\* part_003 also copies the layer's fontUrl into the font-URL input
handlePointerDown ==
    /\ mounted = "mounted"
    /\ frame' = NoFrame
    /\ artifact' = NoArtifact
    /\ fontEvent' = "none"
    /\ UNCHANGED <<loadedFontName, fontLoads>>
    /\ \E id \in LayerIds : \E off \in PointerOffsets :
        /\ dragging' = [id |-> id, offsetX |-> off.offsetX, offsetY |-> off.offsetY]
        /\ selectedLayerId' = id
        /\ customFontUrl' = IF build = FileB THEN FindLayer(layers, id).fontUrl
                            ELSE customFontUrl
    /\ UNCHANGED layers
    /\ UNCHANGED layerFrame

Clamp(v) == IF v < 0 THEN 0 ELSE IF v > 100 THEN 100 ELSE v

handlePointerMove ==
    /\ mounted = "mounted"
    /\ frame' = NoFrame
    /\ artifact' = NoArtifact
    /\ fontIdle
    /\ dragging # NoDrag
    /\ \E e \in PointerMoves :
        LET x == ((e.clientX - dragging.offsetX) * 100) \div Window.innerWidth
            y == ((e.clientY - dragging.offsetY) * 100) \div Window.innerHeight
        IN  layers' = MapUpdate(layers, dragging.id,
                        IF build = FileA
                        THEN [x |-> Clamp(x), y |-> Clamp(y)]
                        ELSE [x |-> x, y |-> y])
    /\ UNCHANGED <<selectedLayerId, dragging>>
    /\ UNCHANGED layerFrame

handlePointerUp ==
    /\ mounted = "mounted"
    /\ frame' = NoFrame
    /\ artifact' = NoArtifact
    /\ fontIdle
    /\ dragging # NoDrag
    /\ dragging' = NoDrag
    /\ UNCHANGED <<layers, selectedLayerId>>
    /\ UNCHANGED layerFrame

(***************************************************************************)
(* Fonts.  loadFontFromCDN (GlitchForge.tsx) and loadFont (part_003) treat *)
(* a URL as a stylesheet or as a font file.  For a stylesheet they add a   *)
(* <link> and call updateLayer at once; whether the browser then manages   *)
(* to fetch the stylesheet (cssOk) is not looked at.  For a font file they *)
(* await FontFace.load(); the continuation runs in FontLoadSettles with    *)
(* the updateLayer of the render that made the call, which holds that      *)
(* render's selectedLayerId.                                               *)
(***************************************************************************)
FontUrlInputs == {GoogleUrl, FileUrl}

\* <Input value={customFontUrl} onChange={(e) => setCustomFontUrl(e.target.value)} />
setCustomFontUrl ==
    /\ mounted = "mounted"
    /\ frame' = NoFrame
    /\ artifact' = NoArtifact
    /\ fontEvent' = "none"
    /\ LayerEditorShown
    /\ \E u \in FontUrlInputs \cup {NoUrl} :
        /\ u # customFontUrl
        /\ customFontUrl' = u
    /\ UNCHANGED <<loadedFontName, fontLoads>>
    /\ UNCHANGED <<layers, selectedLayerId, dragging>>
    /\ UNCHANGED layerFrame

\* url.includes('fonts.googleapis.com') || url.toLowerCase().split('?')[0].endsWith('.css')
IsCssUrl(u) == u.host = "fonts.googleapis.com" \/ u.ext = "css"

\* the family= parameter up to ":" with "+" as blank, else 'External Font'
GuessedName(u) == IF u.family # "" THEN u.family ELSE "External Font"

\* `CustomFont-${Date.now()}` and `ForgeFont-${Date.now()}`
FileFontName(t) ==
    (IF build = FileA THEN "CustomFont-" ELSE "ForgeFont-") \o ToString(t)

\* what the two builds hand to updateLayer once a font is set
FontUpdate(name, u) ==
    IF build = FileA THEN [font |-> name] ELSE [font |-> name, fontUrl |-> u]

loadFont ==
    /\ mounted = "mounted"
    /\ frame' = NoFrame
    /\ artifact' = NoArtifact
    /\ customFontUrl # NoUrl
    /\ LayerEditorShown
    /\ IF IsCssUrl(customFontUrl)
       THEN \E cssOk \in BOOLEAN :
              /\ fontEvent' = IF cssOk THEN "loaded" ELSE "failed"
              /\ layers' = MapUpdate(layers, selectedLayerId,
                                     FontUpdate(GuessedName(customFontUrl), customFontUrl))
              /\ loadedFontName' = IF build = FileA THEN GuessedName(customFontUrl)
                                   ELSE loadedFontName
              /\ UNCHANGED fontLoads
       ELSE /\ fontEvent' = "none"
            /\ fontLoads' = fontLoads \cup
                 {[url |-> customFontUrl, name |-> FileFontName(now),
                   layerId |-> selectedLayerId]}
            /\ UNCHANGED <<layers, loadedFontName>>
    /\ UNCHANGED <<customFontUrl, selectedLayerId, dragging>>
    /\ UNCHANGED layerFrame

\* font.load() resolves (ok) or rejects; a rejection only alerts
FontLoadSettles ==
    /\ mounted = "mounted"
    /\ frame' = NoFrame
    /\ artifact' = NoArtifact
    /\ \E l \in fontLoads : \E ok \in BOOLEAN :
        /\ fontLoads' = fontLoads \ {l}
        /\ IF ok
           THEN /\ fontEvent' = "loaded"
                /\ layers' = MapUpdate(layers, l.layerId, FontUpdate(l.name, l.url))
                /\ loadedFontName' = IF build = FileA THEN l.name ELSE loadedFontName
           ELSE /\ fontEvent' = "failed"
                /\ UNCHANGED <<layers, loadedFontName>>
    /\ UNCHANGED <<customFontUrl, selectedLayerId, dragging>>
    /\ UNCHANGED layerFrame

(***************************************************************************)
(* Number <-> text.  `${n}` in a template literal is Number::toString: for *)
(* a number with at most one decimal it writes the integer part, then      *)
(* ".d" when the decimal is not 0, with "-" in front of a negative number. *)
(* ParseNumber is how the generated program reads such a literal back.     *)
(***************************************************************************)
DigitChars == <<"0","1","2","3","4","5","6","7","8","9">>

IsDigit(c) == \E i \in 1..10 : DigitChars[i] = c

DigitValue(c) == (CHOOSE i \in 1..10 : DigitChars[i] = c) - 1

RECURSIVE NatToString(_)
NatToString(n) ==
    IF n < 10 THEN <<DigitChars[n + 1]>>
    ELSE NatToString(n \div 10) \o <<DigitChars[(n % 10) + 1]>>

NumberToString(t) ==
    LET a == IF t < 0 THEN 0 - t ELSE t
        body == NatToString(a \div 10) \o
                (IF a % 10 = 0 THEN <<>> ELSE <<".", DigitChars[(a % 10) + 1]>>)
    IN  IF t < 0 THEN <<"-">> \o body ELSE body

RECURSIVE ParseNat(_)
ParseNat(str) ==
    IF str = <<>> THEN 0
    ELSE 10 * ParseNat(SubSeq(str, 1, Len(str) - 1)) + DigitValue(str[Len(str)])

\* the value (in tenths) of the literal [-]digits[.digit]
ParseNumber(str) ==
    LET neg == Len(str) > 0 /\ str[1] = "-"
        body == IF neg THEN Tail(str) ELSE str
        hasDot == Len(body) >= 2 /\ body[Len(body) - 1] = "."
        tenths == IF hasDot
                  THEN 10 * ParseNat(SubSeq(body, 1, Len(body) - 2)) + DigitValue(body[Len(body)])
                  ELSE 10 * ParseNat(body)
    IN  IF neg THEN 0 - tenths ELSE tenths

(***************************************************************************)
(* Export.  The artifact is the generated text, kept as the parts that the *)
(* template interpolates; everything else in it is fixed text.             *)
(***************************************************************************)
exportFrame == <<build, exported, mounted, now, selectedAnimation, params, layers,
                 selectedLayerId, dragging, glRef, contextLost, programRef,
                 livePrograms, progStatus, shaders, buffers, effectRuns,
                 rebuildCleanup, animationFrameRef, pending>>

\* selectedAnimation.customParams?.map((param) => `gl.uniform1f(..., '${param.uniform}'), ${value});`)
BakedCustomUniforms(anim, p) ==
    LET cps == CustomParamsOf(anim)
    IN  [i \in 1..Len(cps) |->
            [uniform |-> cps[i].uniform,
             value |-> NumberToString(CustomValue(p, cps[i]))]]

\* fontLinkTag and fontFaceStyle of exportHTML, from the font-URL input (url)
\* and loadedFontName (name); its isCSS test is includes('.css')
HtmlFontInjections(url, name) ==
    (IF url # NoUrl /\ IsCssUrl(url)
     THEN <<[kind |-> "link", url |-> url, family |-> ""]>> ELSE <<>>)
    \o (IF ~IsCssUrl(url) /\ url # NoUrl /\ name # ""
        THEN <<[kind |-> "font-face", url |-> url, family |-> name]>> ELSE <<>>)

\* Array.from(new Set(urls)).filter(Boolean): first occurrences, in order
RECURSIVE UniqueUrls(_)
UniqueUrls(urls) ==
    IF urls = <<>> THEN <<>>
    ELSE LET init == UniqueUrls(SubSeq(urls, 1, Len(urls) - 1))
             last == urls[Len(urls)]
         IN  IF last = NoUrl \/ last \in Range(init) THEN init
             ELSE Append(init, last)

\* the "Inject Fonts" block of exportReactComponent
TsxFontInjections(ls) ==
    LET used == UniqueUrls([i \in 1..Len(ls) |-> ls[i].fontUrl])
    IN  [i \in 1..Len(used) |-> [kind |-> "link", url |-> used[i], family |-> ""]]

\* the text exportHTML builds when the font panel holds url and name
HtmlArtifactOf(url, name) ==
    [kind |-> "html",
     fontInjections |-> HtmlFontInjections(url, name),
     layers |-> layers,
     fragmentShader |-> selectedAnimation,
     colors |-> params.colors,
     complexity |-> NumberToString(params.complexity),
     zoom |-> NumberToString(params.zoom),
     speed |-> NumberToString(params.speed),
     distortion |-> NumberToString(params.distortion),
     customUniforms |-> BakedCustomUniforms(selectedAnimation, params)]

\* exportHTML (GlitchForge.tsx)
HtmlArtifact == HtmlArtifactOf(customFontUrl, loadedFontName)

\* exportReactComponent (part_003): its generated render() binds the four
\* global scalars and the colors only
TsxArtifact ==
    [kind |-> "tsx",
     fontInjections |-> TsxFontInjections(layers),
     layers |-> layers,
     fragmentShader |-> selectedAnimation,
     colors |-> params.colors,
     complexity |-> NumberToString(params.complexity),
     zoom |-> NumberToString(params.zoom),
     speed |-> NumberToString(params.speed),
     distortion |-> NumberToString(params.distortion),
     customUniforms |-> <<>>]

\* an export that also puts the layer list back to its first state
exportHTMLResettingLayers ==
    /\ mounted = "mounted"
    /\ build = FileA
    /\ artifact' = HtmlArtifact
    /\ frame' = NoFrame
    /\ fontIdle
    /\ layers' = <<InitialLayer>>
    /\ selectedLayerId' = "1"
    /\ UNCHANGED <<build, exported, mounted, now, selectedAnimation, params, dragging, glRef,
                   contextLost, programRef, livePrograms, progStatus, shaders,
                   buffers, effectRuns, rebuildCleanup, animationFrameRef, pending>>

exportHTML ==
    /\ mounted = "mounted"
    /\ build = FileA
    /\ artifact' = HtmlArtifact
    /\ frame' = NoFrame
    /\ fontIdle
    /\ UNCHANGED exportFrame

exportReactComponent ==
    /\ mounted = "mounted"
    /\ build = FileB
    /\ artifact' = TsxArtifact
    /\ frame' = NoFrame
    /\ fontIdle
    /\ UNCHANGED exportFrame

\* what one frame of the exported program binds, read back from its text
ArtifactUniforms(a) ==
    [u_zoom |-> ParseNumber(a.zoom), u_complexity |-> ParseNumber(a.complexity),
     u_speed |-> ParseNumber(a.speed), u_distortion |-> ParseNumber(a.distortion),
     custom |-> [u \in {a.customUniforms[i].uniform : i \in 1..Len(a.customUniforms)} |->
                    ParseNumber(a.customUniforms[
                        CHOOSE i \in 1..Len(a.customUniforms) :
                            a.customUniforms[i].uniform = u].value)]]

\* the color-string conversions one render() of the exported program makes:
\* colors.forEach((color) => hexToRgb(color) ...) in the page, the three
\* parseInt(c.slice(..), 16) / 255 in the component, once per palette entry
ArtifactFrameConversions(a) == Len(a.colors)

(***************************************************************************)
(* The exported program run on its own.  The page that exportHTML writes   *)
(* runs its script once when it is opened; the component that              *)
(* exportReactComponent writes runs its useEffect(..., []) once when it is *)
(* mounted and that effect's cleanup when it is unmounted.  exported.kind  *)
(* says which of the two runs.                                             *)
(***************************************************************************)
editorState == <<build, mounted, now, selectedAnimation, params, layers,
                 selectedLayerId, dragging, glRef, contextLost, programRef,
                 livePrograms, progStatus, shaders, buffers, effectRuns,
                 rebuildCleanup, animationFrameRef, pending>>

\* the step is one of the exported program, not of the editor
editorIdle ==
    /\ frame' = NoFrame
    /\ artifact' = NoArtifact
    /\ fontIdle
    /\ UNCHANGED editorState

\* the page's script: it tests neither the context nor any compile or link
\* status; with no context gl.createShader throws and the script ends
HtmlStart(glAvailable) ==
    IF ~glAvailable
    THEN [NotStarted EXCEPT !.kind = "html", !.phase = "open"]
    ELSE [kind |-> "html", phase |-> "open", gl |-> TRUE, contextLost |-> FALSE,
          programs |-> 1, shaders |-> 2, buffers |-> 1, pending |-> 1, frames |-> 1]

\* the component's effect: "if (!gl) return"; createShader deletes a shader
\* that fails to compile and "if (!vs || !fs) return" leaves the other one;
\* the link status is not tested
TsxStart(glAvailable, o) ==
    IF ~glAvailable
    THEN [NotStarted EXCEPT !.kind = "tsx", !.phase = "open"]
    ELSE IF ~(o.vsOk /\ o.fsOk)
    THEN [NotStarted EXCEPT !.kind = "tsx", !.phase = "open", !.gl = TRUE,
                            !.shaders = (IF o.vsOk THEN 1 ELSE 0) + (IF o.fsOk THEN 1 ELSE 0)]
    ELSE [kind |-> "tsx", phase |-> "open", gl |-> TRUE, contextLost |-> FALSE,
          programs |-> 1, shaders |-> 2, buffers |-> 1, pending |-> 1, frames |-> 1]

\* the file just downloaded is opened (the page) or mounted (the component)
ArtifactStart ==
    /\ artifact # NoArtifact
    /\ exported.phase = "idle"
    /\ \E glAvailable \in BOOLEAN :
         IF artifact.kind = "html"
         THEN exported' = HtmlStart(glAvailable)
         ELSE \E o \in CompileOutcomes : exported' = TsxStart(glAvailable, o)
    /\ editorIdle

\* the generated render(): uniforms, drawArrays, requestAnimationFrame(render);
\* it tests nothing before it draws and asks for the next frame
ArtifactTick ==
    /\ exported.pending = 1
    /\ exported.frames < MaxArtifactFrames
    /\ exported' = [exported EXCEPT !.frames = @ + 1]
    /\ editorIdle

\* the driver loses the context of the exported program; neither generated
\* text registers a 'webglcontextlost' or 'webglcontextrestored' listener
ArtifactContextLost ==
    /\ exported.phase = "open"
    /\ exported.gl
    /\ ~exported.contextLost
    /\ exported' = [exported EXCEPT !.contextLost = TRUE]
    /\ editorIdle

\* the generated component is unmounted: removeEventListener('resize') and
\* cancelAnimationFrame(requestRef.current).  The page has no teardown code.
ArtifactTeardown ==
    /\ exported.kind = "tsx"
    /\ exported.phase = "open"
    /\ exported' = [exported EXCEPT !.phase = "closed", !.pending = 0]
    /\ editorIdle

Next ==
    \/ Mount \/ Tick \/ Dispose \/ ContextLost \/ AdvanceClock
    \/ setSelectedAnimation \/ setScalar \/ setCustomValue \/ setPaletteSlot
    \/ addLayer \/ deleteLayer \/ updateLayer
    \/ handlePointerDown \/ handlePointerMove \/ handlePointerUp
    \/ setCustomFontUrl \/ loadFont \/ FontLoadSettles
    \/ exportHTML \/ exportReactComponent
    \/ ArtifactStart \/ ArtifactTick \/ ArtifactContextLost \/ ArtifactTeardown

Spec == Init /\ [][Next]_vars

\* The render engine and the parameter store: the layer list stays as created.
EngineNext ==
    \/ Mount \/ Tick \/ Dispose \/ ContextLost
    \/ setSelectedAnimation \/ setScalar \/ setCustomValue \/ setPaletteSlot
    \/ exportHTML \/ exportReactComponent

\* The layer model: the parameters stay as created.
LayerNext ==
    \/ Mount \/ AdvanceClock
    \/ addLayer \/ deleteLayer \/ updateLayer
    \/ handlePointerDown \/ handlePointerMove \/ handlePointerUp
    \/ exportHTML \/ exportReactComponent

\* The font loader next to the layer list, within one millisecond of the
\* clock: the parameters stay as created.
FontNext ==
    \/ Mount
    \/ addLayer \/ deleteLayer \/ handlePointerDown
    \/ setCustomFontUrl \/ loadFont \/ FontLoadSettles
    \/ exportHTML \/ exportReactComponent

\* The exported program next to the editor that wrote it.
ArtifactNext ==
    \/ Mount \/ setSelectedAnimation \/ exportHTML \/ exportReactComponent
    \/ ArtifactStart \/ ArtifactTick \/ ArtifactContextLost \/ ArtifactTeardown

\* Color conversion on the palettes of InitPalette and the color inputs.
ColorNext ==
    \/ Mount \/ Tick \/ setPaletteSlot \/ exportHTML \/ exportReactComponent

SpecArtifact == Init /\ [][ArtifactNext]_vars
SpecColors == InitPalette /\ [][ColorNext]_vars
SpecEngine == Init /\ [][EngineNext]_vars

\* The host fires every frame callback that stays requested.
SpecEngineFair == SpecEngine /\ WF_vars(Tick)
SpecFonts == Init /\ [][FontNext]_vars
SpecLayers == Init /\ [][LayerNext]_vars

(***************************************************************************)
(* Properties.                                                             *)
(***************************************************************************)

\* C1: the layer list is never empty: at every moment it holds at least one
\* layer (a delete with exactly one layer left removes nothing).
C1_LayersNeverEmpty == Len(layers) >= 1

\* a rebuild ran on a held context and did not produce a compiled, linked
\* program: it returned early, threw, or a compile or the link failed
RebuildFailedStep ==
    /\ glRef
    /\ effectRuns' = effectRuns + 1
    /\ \/ programRef' = programRef
       \/ ~(progStatus'.vsOk /\ progStatus'.fsOk /\ progStatus'.linkOk)

\* C2: a rebuild whose compile or link fails leaves the previously active
\* program active and not deleted (no program active only if it was the first
\* build).
C2_FailedRebuildKeepsProgram ==
    [][RebuildFailedStep =>
          /\ programRef' = programRef
          /\ programRef # 0 => programRef \in livePrograms']_vars

\* C3: while the context is lost no tick runs and none is scheduled.
C3_NoTickWhileContextLost ==
    contextLost => (frame = NoFrame /\ pending = {})

\* the layer schema of the export: non-empty text, position within [0,100],
\* positive size
SchemaValid(layer) ==
    /\ layer.text # ""
    /\ layer.x >= 0 /\ layer.x <= 100
    /\ layer.y >= 0 /\ layer.y <= 100
    /\ layer.size > 0

\* C4: an export requested while some layer violates the schema produces no
\* artifact.
C4_ExportValidatesLayers ==
    artifact # NoArtifact => \A i \in 1..Len(layers) : SchemaValid(layers[i])

\* the value the parameter store holds for a declared custom parameter
StoredCustomValue(cp) ==
    IF cp.name \in DOMAIN params.customParams THEN params.customParams[cp.name]
    ELSE cp.default

\* C5: every tick binds, for each custom parameter the selected effect
\* declares, the stored custom value if there is one and the declared default
\* otherwise, and nothing else; plasma with no override gets frequency 3.
C5_TickBindsCustomParams ==
    frame # NoFrame =>
        /\ DOMAIN frame.custom =
             {cp.uniform : cp \in Range(CustomParamsOf(selectedAnimation))}
        /\ \A cp \in Range(CustomParamsOf(selectedAnimation)) :
             frame.custom[cp.uniform] = StoredCustomValue(cp)
        /\ (selectedAnimation = "plasma" /\ params.customParams = EmptyMap)
             => frame.custom["u_frequency"] = 30

C5_Witness ==
    /\ frame # NoFrame
    /\ selectedAnimation = "plasma"
    /\ params.customParams = EmptyMap
    /\ frame.custom["u_frequency"] = 30
    /\ effectRuns >= 2

\* C6: selecting an effect empties the custom values.
C6_SelectionResetsCustomValues ==
    [][selectedAnimation' # selectedAnimation
          => params'.customParams = EmptyMap]_vars

\* C7: once the component is disposed no tick runs and none is scheduled.
C7_NoTickAfterDispose ==
    mounted = "disposed" => (pending = {} /\ frame = NoFrame)

C7_Witness ==
    /\ mounted = "disposed"
    /\ ~contextLost
    /\ programRef # 0
    /\ rebuildCleanup
    /\ animationFrameRef # 0
    /\ effectRuns >= 2

\* C8: after dispose the program, both shaders and the buffer are deleted and
\* the context reference is dropped.
C8_DisposeReleasesGpu ==
    mounted = "disposed" =>
        (livePrograms = {} /\ shaders = 0 /\ buffers = 0 /\ ~glRef)

\* no tick scheduled or run, no GPU object created
UnsupportedInert ==
    /\ pending = {} /\ frame = NoFrame
    /\ programRef = 0 /\ livePrograms = {} /\ shaders = 0 /\ buffers = 0

\* the parameter and layer handlers can act and change their stores
EditorUsable ==
    /\ effectRuns <= MaxEffectRuns =>
         /\ ENABLED (setSelectedAnimation /\ selectedAnimation' # selectedAnimation)
         /\ ENABLED (setScalar /\ params' # params)
         /\ ENABLED (setPaletteSlot /\ params' # params)
    /\ Len(layers) < MaxLayers =>
         ENABLED (addLayer /\ Len(layers') = Len(layers) + 1)
    /\ ENABLED (updateLayer /\ layers' # layers)
    /\ ENABLED (handlePointerDown /\ dragging' # dragging)

C10_ArtifactBindsSnapshot ==
    artifact # NoArtifact =>
        LET u == ArtifactUniforms(artifact)
        IN  /\ u.u_zoom = params.zoom
            /\ u.u_complexity = params.complexity
            /\ u.u_speed = params.speed
            /\ u.u_distortion = params.distortion
            /\ DOMAIN u.custom =
                 {cp.uniform : cp \in Range(CustomParamsOf(selectedAnimation))}
            /\ \A cp \in Range(CustomParamsOf(selectedAnimation)) :
                 u.custom[cp.uniform] = StoredCustomValue(cp)

\* C11: the artifact is a function of the parameters, the selected effect and
\* the layers only: whatever the font panel holds, an export gives the very
\* text that the same three give with the font panel untouched (empty
\* font-URL input, no loaded font name).
C11_ArtifactOfInputsOnly ==
    artifact # NoArtifact =>
        artifact = IF build = FileA THEN HtmlArtifactOf(NoUrl, "") ELSE TsxArtifact

\* C12: a step that exports leaves the parameter store (palette, scalars,
\* custom values, selected effect) and the layer model (layers, selection)
\* as they were.
C12_ExportLeavesStores ==
    [][artifact' # NoArtifact =>
          UNCHANGED <<params, selectedAnimation, layers, selectedLayerId>>]_vars

C12_Witness ==
    /\ artifact # NoArtifact
    /\ Len(layers) >= 2
    /\ selectedLayerId # "1"
    /\ \E i \in 1..Len(layers) : layers[i].text = ""

\* C13: the ids of the layers are pairwise distinct in every reachable state.
C13_LayerIdsDistinct ==
    \A i, j \in 1..Len(layers) : i # j => layers[i].id # layers[j].id

\* C14: every layer's position lies in [0,100] on both axes in every
\* reachable state.
C14_PositionsWithinBounds ==
    \A i \in 1..Len(layers) :
        /\ layers[i].x >= 0 /\ layers[i].x <= 100
        /\ layers[i].y >= 0 /\ layers[i].y <= 100

\* the id a step's call of updateLayer matches layers against: the id a font
\* load that settles in the step was requested with, else the selected id
UpdateTarget ==
    IF fontLoads' # fontLoads /\ fontLoads' \subseteq fontLoads
    THEN (CHOOSE l \in fontLoads \ fontLoads' : TRUE).layerId
    ELSE selectedLayerId

\* C15: a step that calls updateLayer (the text input, the font loader at
\* once for a stylesheet and on settling for a font file) changes only layers
\* with the matching id: all others, the number of layers, their order and
\* their ids stay, and with no matching layer the whole list stays.
C15_UpdateChangesOnlyTarget ==
    [][(updateLayer \/ loadFont \/ FontLoadSettles) =>
          /\ Len(layers') = Len(layers)
          /\ \A i \in 1..Len(layers) :
               /\ layers'[i].id = layers[i].id
               /\ layers[i].id # UpdateTarget => layers'[i] = layers[i]
          /\ UpdateTarget \notin LayerIds => layers' = layers]_vars

\* a font file resolved for a layer that is gone, next to a layer that stays
C15_Witness ==
    /\ fontEvent = "loaded"
    /\ fontLoads = {}
    /\ Len(layers) >= 1
    /\ \A i \in 1..Len(layers) : layers[i].font = "monospace"

\* C16: a step that changes a scalar, a custom value or a palette slot
\* compiles no shader and creates or deletes no program: the installed
\* program is the same object before and after.
C16_SetDoesNotRebuild ==
    [][(params' # params /\ selectedAnimation' = selectedAnimation) =>
          /\ programRef' = programRef
          /\ livePrograms' = livePrograms
          /\ shaders' = shaders]_vars

\* C17: every frame that is drawn binds the four scalars, the five palette
\* slots and the custom parameters to the values the parameter store holds in
\* that very state, never to older ones.
C17_TickBindsLatestValues ==
    frame # NoFrame =>
        /\ frame.u_zoom = params.zoom
        /\ frame.u_complexity = params.complexity
        /\ frame.u_speed = params.speed
        /\ frame.u_distortion = params.distortion
        /\ DOMAIN frame.colors = 1..5
        /\ \A i \in 1..5 : frame.colors[i] = hexToRgb(params.colors[i])
        /\ \A cp \in Range(CustomParamsOf(selectedAnimation)) :
             /\ cp.uniform \in DOMAIN frame.custom
             /\ frame.custom[cp.uniform] = StoredCustomValue(cp)

C17_Witness ==
    /\ frame # NoFrame
    /\ params.complexity = 1500
    /\ frame.u_complexity = 1500
    /\ params.colors[5] = <<"#","0","0","0","0","0","0">>
    /\ effectRuns >= 3

\* C18: when a font request fails (the stylesheet or the font file cannot be
\* loaded) every layer keeps the font it had before the request.
C18_FailedLoadKeepsFonts ==
    [][fontEvent' = "failed" =>
          /\ Len(layers') = Len(layers)
          /\ \A i \in 1..Len(layers) : layers'[i].font = layers[i].font]_vars

\* the layers whose font field a step changes
FontChanged == {i \in 1..Len(layers) : layers'[i].font # layers[i].font}

\* C19: a pending font load does not keep a requested frame from running,
\* and the step in which it settles changes the font of at most one layer,
\* one with the id that was selected at the request, and of none when no
\* layer has that id any more.
C19_LoadSettlesOnOneLayer ==
    [][/\ (fontLoads # {} /\ pending # {}) => ENABLED Tick
       /\ (fontLoads' # fontLoads /\ fontLoads' \subseteq fontLoads) =>
            /\ Len(layers') = Len(layers)
            /\ Cardinality(FontChanged) <= 1
            /\ \A i \in FontChanged : layers[i].id = UpdateTarget
            /\ UpdateTarget \notin LayerIds => layers' = layers]_vars

\* the names a font loaded from url u can have
FontNamesFrom(u) ==
    IF IsCssUrl(u) THEN {GuessedName(u)} ELSE {FileFontName(t) : t \in NowValues}

\* the font URLs the layers ls reference: by fontUrl, and in GlitchForge.tsx,
\* whose layers carry the font name only, by the name of a font loaded from it
ReferencedUrls(ls) ==
    {u \in FontUrlInputs :
        \E i \in 1..Len(ls) :
            \/ ls[i].fontUrl = u
            \/ build = FileA /\ ls[i].font \in FontNamesFrom(u)}

\* C20: the artifact holds exactly one injection statement for every font URL
\* a layer of the exported list references, and none for any other URL.
C20_InjectsReferencedFonts ==
    artifact # NoArtifact =>
        LET inj == artifact.fontInjections
        IN  /\ \A u \in ReferencedUrls(artifact.layers) :
                 Cardinality({i \in 1..Len(inj) : inj[i].url = u}) = 1
            /\ \A i \in 1..Len(inj) : inj[i].url \in ReferencedUrls(artifact.layers)

\* C21: the artifact holds every palette color as the normalized RGB triple
\* of the snapshot's color, and one frame of the artifact converts no color
\* string.
C21_ArtifactCarriesTriples ==
    artifact # NoArtifact =>
        /\ \A i \in 1..Len(artifact.colors) :
             /\ Len(artifact.colors[i]) = 3
             /\ artifact.colors[i] = hexToRgb(params.colors[i])
        /\ ArtifactFrameConversions(artifact) = 0

\* C22: the exported program, run on its own, has no frame scheduled while
\* its context is lost, and once torn down has no frame scheduled and no
\* program, shader or geometry buffer left undeleted.
C22_ArtifactFollowsLifecycle ==
    /\ exported.contextLost => exported.pending = 0
    /\ exported.phase = "closed" =>
         /\ exported.pending = 0
         /\ exported.programs = 0 /\ exported.shaders = 0 /\ exported.buffers = 0

\* "#" and six hex digits
IsHexColor(c) == Len(c) = 7 /\ c[1] = "#" /\ \A k \in 2..7 : IsHexDigit(c[k])

\* the 0-255 value that the two hex digits d1 d2 write
ChannelOf(d1, d2) ==
    CHOOSE n \in 0..255 :
        /\ d1 \in {HexDigits[(n \div 16) + 1], HexDigitsUpper[(n \div 16) + 1]}
        /\ d2 \in {HexDigits[(n % 16) + 1], HexDigitsUpper[(n % 16) + 1]}

\* (RR/255, GG/255, BB/255)
ChannelsOf(c) ==
    <<[nan |-> FALSE, num |-> ChannelOf(c[2], c[3]), den |-> 255],
      [nan |-> FALSE, num |-> ChannelOf(c[4], c[5]), den |-> 255],
      [nan |-> FALSE, num |-> ChannelOf(c[6], c[7]), den |-> 255]>>

\* C23: the conversion a frame applies to a palette color #RRGGBB gives
\* (RR/255, GG/255, BB/255), each channel the 0-255 value of its two hex
\* digits; #ccff00 gives (204/255, 255/255, 0/255).
C23_HexToRgbChannels ==
    /\ frame # NoFrame =>
         \A i \in 1..Len(params.colors) :
             IsHexColor(params.colors[i]) =>
                 /\ frame.colors[i] = ChannelsOf(params.colors[i])
                 /\ hexToRgb(params.colors[i]) = ChannelsOf(params.colors[i])
    /\ hexToRgb(<<"#","c","c","f","f","0","0">>) =
         <<[nan |-> FALSE, num |-> 204, den |-> 255],
           [nan |-> FALSE, num |-> 255, den |-> 255],
           [nan |-> FALSE, num |-> 0, den |-> 255]>>

C23_Witness ==
    /\ frame # NoFrame
    /\ params.colors[1] = <<"#","8","0","e","9","d","7">>
    /\ frame.colors[1][1].num = 128
    /\ frame.colors[1][2].num = 233
    /\ frame.colors[1][3].num = 215
    /\ params.colors[5] = <<"#","c","c","f","f","0","0">>
    /\ frame.colors[5][1].num = 204

\* C24: the effect runs to its end within one step, so no requested frame
\* fires inside a rebuild; after a rebuild every frame still requested
\* belongs to the render() that rebuild made, and every frame drawn uses the
\* program the latest rebuild installed and binds the custom parameters the
\* selected effect declares, never those of the selection before.
C24_TicksFollowRebuild ==
    /\ \A f \in pending : f.anim = selectedAnimation /\ f.params = params
    /\ frame # NoFrame =>
         /\ frame.program = programRef
         /\ programRef = effectRuns
         /\ DOMAIN frame.custom =
              {cp.uniform : cp \in Range(CustomParamsOf(selectedAnimation))}

\* a frame fired on the program of the second build, made for plasma: the
\* export in between had emptied `frame`
C24_Witness ==
    /\ frame # NoFrame
    /\ selectedAnimation = "plasma"
    /\ programRef = 2
    /\ frame.program = 2
    /\ progStatus.vsOk /\ progStatus.fsOk /\ progStatus.linkOk
    /\ "u_frequency" \in DOMAIN frame.custom
    /\ Cardinality(pending) = 1

\* the engine holds a context that is not lost and has installed a program
Running == mounted = "mounted" /\ glRef /\ ~contextLost /\ programRef # 0

\* C25: a render() that draws leaves exactly one frame requested; while the
\* engine is Running a frame is requested at every moment, and if the host
\* fires requested frames, then whatever selections and edits came before,
\* a frame is drawn again unless the engine is disposed or loses its context.
C25_TicksKeepOccurring ==
    /\ [](frame # NoFrame => Cardinality(pending) = 1)
    /\ [](Running => pending # {})
    /\ [](Running => <>(frame # NoFrame \/ ~Running))

\* C26: at every moment at most one program, two shaders and one geometry
\* buffer exist undeleted, however many rebuilds have run.
C26_GpuObjectsBounded ==
    /\ Cardinality(livePrograms) <= 1
    /\ shaders <= 2
    /\ buffers <= 1

\* C27: every frame that is drawn uses a program that is not deleted and
\* whose two shaders compiled and whose link succeeded.
C27_NoTickOnBadProgram ==
    frame # NoFrame =>
        /\ frame.program \in livePrograms
        /\ progStatus.vsOk /\ progStatus.fsOk /\ progStatus.linkOk

\* C28: at every moment at most one frame callback is requested.
C28_AtMostOnePendingTick == Cardinality(pending) <= 1

\* the loop runs on after three runs of the effect, the last of which
\* installed a program whose link failed
C28_Witness ==
    /\ Cardinality(pending) = 1
    /\ effectRuns >= 3
    /\ selectedAnimation = "plasma"
    /\ ~progStatus.linkOk
    /\ mounted = "mounted"

\* C29: the selected id is the id of a layer of the list.
C29_SelectionIsPresent == selectedLayerId \in LayerIds

\* C30: the palette has exactly five colors in every state, a step that
\* changes the palette changes one slot and leaves the other four, and every
\* frame drawn binds exactly the five palette uniforms.
C30_PaletteHasFiveColors ==
    /\ [](Len(params.colors) = 5)
    /\ [](frame # NoFrame => DOMAIN frame.colors = 1..5)
    /\ [][params'.colors # params.colors =>
            /\ Len(params'.colors) = 5
            /\ \E i \in 1..5 :
                 \A j \in 1..5 : j # i => params'.colors[j] = params.colors[j]]_vars

C30_Witness ==
    /\ Len(params.colors) = 5
    /\ params.colors[1] = <<"#","0","0","0","0","0","0">>
    /\ params.colors[5] = <<"#","c","c","f","f","0","0">>
    /\ params.colors[2] = InitialColors[2]
    /\ frame # NoFrame
    /\ DOMAIN frame.colors = 1..5

====
